---- MODULE Spec2Model ----
(***************************************************************************)
(* Model of ComplaintsAnalysis/Predictor.py: one prediction request        *)
(* (Predictor.predict) followed by further direct calls of                 *)
(* Predictor.predict_escalation on the feature row the request left.       *)
(*                                                                         *)
(* Probabilities are integers in percent (0.5 is 50, 0.15 is 15).  Only    *)
(* their order and their position relative to the thresholds is used by    *)
(* the code.  Text is a TLA+ string where the code only concatenates or    *)
(* compares it, and a tuple of one-character strings where the code looks  *)
(* inside it (split, re.sub, capitalize).                                  *)
(***************************************************************************)
EXTENDS Integers, Sequences, FiniteSets, TLC

(* ------------------------------ bounds -------------------------------- *)

\* The classifier's probabilities range over the 5% grid from MaxBelow steps
\* under the suggestion threshold to MaxAbove steps over it.
MaxBelow == 2
MaxAbove == 1
\* The product classifier's probabilities are multiples of 1/ProductUnits.
ProductUnits == 4
\* Direct calls of predict_escalation that follow the request.
MaxCalls == 1

(* ------------------- collaborators outside Predictor.py ---------------- *)

\* get_response_types(): the canonical, ordered response types.
get_response_types ==
    << "Closed with explanation", "Closed with monetary relief",
       "Closed with non-monetary relief", "Untimely response" >>

\* PRODUCT_LABELS: the canonical label enumeration, indexed by position.
PRODUCT_LABELS == << "Bank account or service", "Credit card", "Mortgage" >>

\* The narratives a caller may pass: text, the empty string, or no text at all.
Narratives == {"text", "empty", "nontext"}

IsValidNarrative(narrative) == narrative = "text"

\* The sentiment columns the classifier was trained on.
SENTIMENT_COLUMNS ==
    << "corpus_score_sum", "corpus_score_ave", "negative_ratio",
       "most_negative_score", "word_num", "sentence_num",
       "num_of_question_mark", "num_of_exclaimation_mark" >>

(* ------------------------------ helpers -------------------------------- *)

Range(s) == {s[k] : k \in 1..Len(s)}

\* A DataFrame of one row: its ordered columns and the row's value per column.
NoFrame == [columns |-> << >>, data |-> << >>]

\* generate_sentiment_metric([narrative]): a fresh row of raw metrics.
generate_sentiment_metric ==
    [columns |-> SENTIMENT_COLUMNS,
     data    |-> [c \in Range(SENTIMENT_COLUMNS) |-> "raw"]]

\* df.loc[:, cols] = scaler.transform(df.loc[:, cols])
ScaleColumns(df, cols) ==
    [df EXCEPT !.data = [c \in DOMAIN df.data |->
                            IF c \in cols THEN "scaled" ELSE df.data[c]]]

\* df[name] = value: an existing column is overwritten in place, a new one is
\* appended after the last column.
SetColumn(df, name, value) ==
    IF name \in Range(df.columns)
    THEN [df EXCEPT !.data[name] = value]
    ELSE [columns |-> Append(df.columns, name),
          data    |-> [c \in DOMAIN df.data \cup {name} |->
                          IF c = name THEN value ELSE df.data[c]]]

\* np.array(df): the row's values in column order, the names dropped.
AsArray(df) == [k \in 1..Len(df.columns) |-> df.data[df.columns[k]]]

(* --------------------------- text operations --------------------------- *)

UpperCase ==
    << "A", "B", "C", "D", "E", "F", "G", "H", "I", "J", "K", "L", "M",
       "N", "O", "P", "Q", "R", "S", "T", "U", "V", "W", "X", "Y", "Z" >>
LowerCase ==
    << "a", "b", "c", "d", "e", "f", "g", "h", "i", "j", "k", "l", "m",
       "n", "o", "p", "q", "r", "s", "t", "u", "v", "w", "x", "y", "z" >>

\* The characters of each response type.
Spell(text) ==
    CASE text = "Closed with explanation" ->
           << "C", "l", "o", "s", "e", "d", " ", "w", "i", "t", "h", " ",
              "e", "x", "p", "l", "a", "n", "a", "t", "i", "o", "n" >>
      [] text = "Closed with monetary relief" ->
           << "C", "l", "o", "s", "e", "d", " ", "w", "i", "t", "h", " ",
              "m", "o", "n", "e", "t", "a", "r", "y", " ",
              "r", "e", "l", "i", "e", "f" >>
      [] text = "Closed with non-monetary relief" ->
           << "C", "l", "o", "s", "e", "d", " ", "w", "i", "t", "h", " ",
              "n", "o", "n", "-", "m", "o", "n", "e", "t", "a", "r", "y", " ",
              "r", "e", "l", "i", "e", "f" >>
      [] text = "Untimely response" ->
           << "U", "n", "t", "i", "m", "e", "l", "y", " ",
              "r", "e", "s", "p", "o", "n", "s", "e" >>

ClosedWith == << "C", "l", "o", "s", "e", "d", " ", "w", "i", "t", "h", " " >>

ToUpper(ch) ==
    IF \E k \in 1..Len(LowerCase) : LowerCase[k] = ch
    THEN UpperCase[CHOOSE k \in 1..Len(LowerCase) : LowerCase[k] = ch]
    ELSE ch

ToLower(ch) ==
    IF \E k \in 1..Len(UpperCase) : UpperCase[k] = ch
    THEN LowerCase[CHOOSE k \in 1..Len(UpperCase) : UpperCase[k] = ch]
    ELSE ch

\* s.split("_")[-1]: what follows the last underscore, all of s without one.
SplitLast(s) ==
    LET cuts == {k \in 1..Len(s) : s[k] = "_"}
    IN  IF cuts = {} THEN s
        ELSE SubSeq(s, (CHOOSE k \in cuts : \A j \in cuts : j <= k) + 1, Len(s))

StartsWithAt(s, k, pat) ==
    /\ k + Len(pat) - 1 <= Len(s)
    /\ \A j \in 1..Len(pat) : s[k + j - 1] = pat[j]

\* re.sub(pat, "", s) for a literal pat: the non-overlapping occurrences of pat,
\* found left to right, are removed.
RECURSIVE RemoveAll(_, _, _)
RemoveAll(s, k, pat) ==
    IF k > Len(s) THEN << >>
    ELSE IF StartsWithAt(s, k, pat) THEN RemoveAll(s, k + Len(pat), pat)
    ELSE << s[k] >> \o RemoveAll(s, k + 1, pat)

\* s.capitalize(): the first character in upper case, the others in lower case.
Capitalize(s) ==
    [k \in 1..Len(s) |-> IF k = 1 THEN ToUpper(s[k]) ELSE ToLower(s[k])]

\* Mutant of DisplayResponse: the re.sub of line 61 is left out.
DisplayResponseNoStrip(response) ==
    Capitalize(SplitLast(Spell(response)))

\* Lines 60-61 of predict: the response as it is shown to the user.
DisplayResponse(response) ==
    Capitalize(RemoveAll(SplitLast(Spell(response)), 1, ClosedWith))

(* ------------------------ the decision functions ----------------------- *)

\* min(list)
RECURSIVE MinOf(_)
MinOf(list) ==
    IF Len(list) = 1 THEN list[1]
    ELSE LET m == MinOf(Tail(list))
         IN  IF list[1] <= m THEN list[1] ELSE m

\* Mutant of IndexOf: the last position holding value.
IndexOfLast(list, value) ==
    CHOOSE k \in 1..Len(list) :
        /\ list[k] = value
        /\ \A j \in (k + 1)..Len(list) : list[j] # value

\* list.index(value): the first position holding value.
IndexOf(list, value) ==
    CHOOSE k \in 1..Len(list) :
        /\ list[k] = value
        /\ \A j \in 1..(k - 1) : list[j] # value

\* Mutant of ArgMaxFrom: a later position holding the maximum replaces an
\* earlier one.
RECURSIVE ArgMaxFromLast(_, _, _)
ArgMaxFromLast(list, k, best) ==
    IF k > Len(list) THEN best
    ELSE ArgMaxFromLast(list, k + 1, IF list[k] >= list[best] THEN k ELSE best)

\* np.argmax(list): the first position holding the maximum.
RECURSIVE ArgMaxFrom(_, _, _)
ArgMaxFrom(list, k, best) ==
    IF k > Len(list) THEN best
    ELSE ArgMaxFrom(list, k + 1, IF list[k] > list[best] THEN k ELSE best)

ArgMax(list) == ArgMaxFrom(list, 2, 1)

escalation_prob_thresh == 50
suggested_prob_offset == 15
suggested_prob_thresh == escalation_prob_thresh - suggested_prob_offset

\* Mutant of SuggestLoop: line 136 compares with >= instead of >.
RECURSIVE SuggestLoopLastTie(_, _, _, _)
SuggestLoopLastTie(list, index, min_prob, suggested_index) ==
    IF index > Len(list) THEN suggested_index
    ELSE IF list[index] < suggested_prob_thresh /\ list[index] >= min_prob
         THEN SuggestLoopLastTie(list, index + 1, list[index], index)
         ELSE SuggestLoopLastTie(list, index + 1, min_prob, suggested_index)

\* The loop of lines 134-138, from position index on, with the running
\* min_prob and suggested_index.
RECURSIVE SuggestLoop(_, _, _, _)
SuggestLoop(list, index, min_prob, suggested_index) ==
    IF index > Len(list) THEN suggested_index
    ELSE IF list[index] < suggested_prob_thresh /\ list[index] > min_prob
         THEN SuggestLoop(list, index + 1, list[index], index)
         ELSE SuggestLoop(list, index + 1, min_prob, suggested_index)

\* Lines 131-138: the position of the suggested response.
SuggestedIndex(list) ==
    SuggestLoop(list, 1, MinOf(list), IndexOf(list, MinOf(list)))

(* --------------------------- the one-hot block -------------------------- *)

column_name_base == "company_response_"

\* Line 82: one column name per response type.
new_column_names(response_types) ==
    [k \in 1..Len(response_types) |-> column_name_base \o response_types[k]]

\* Lines 87-88: every one-hot column, from the k-th on, is set to 0.
RECURSIVE ResetColumns(_, _, _)
ResetColumns(df, names, k) ==
    IF k > Len(names) THEN df
    ELSE ResetColumns(SetColumn(df, names[k], 0), names, k + 1)

\* Mutant of EncodeOneHot: the reset of lines 87-88 is left out.
EncodeOneHotNoReset(df, response_types, response) ==
    SetColumn(df, column_name_base \o response, 1)

\* Lines 87-90: the row encoded for response.
EncodeOneHot(df, response_types, response) ==
    SetColumn(ResetColumns(df, new_column_names(response_types), 1),
              column_name_base \o response, 1)

\* Line 92: hstack((narrative_vectorized, np.array(sentiment_metric))).
HStack(vectorized, df) == << vectorized >> \o AsArray(df)

\* Mutant of AppendProbability: the probability is put in front.
PrependProbability(list, predict_probability) == << predict_probability >> \o list

\* Line 104: predict_probability_list.append(predict_probability).
AppendProbability(list, predict_probability) == Append(list, predict_probability)

(* ------------------------- the product classifier ----------------------- *)

\* Lines 69-73: the label at the arg-max position; a position past the last
\* label raises IndexError.
predict_product_type(product_type_prob) ==
    LET index_product_most_prob == ArgMax(product_type_prob)
    IN  IF index_product_most_prob \in DOMAIN PRODUCT_LABELS
        THEN [raised |-> FALSE, value |-> PRODUCT_LABELS[index_product_most_prob]]
        ELSE [raised |-> TRUE, value |-> "IndexError"]

RECURSIVE SumOf(_)
SumOf(list) == IF list = << >> THEN 0 ELSE list[1] + SumOf(Tail(list))

\* clf_product.predict_proba(...)[0]: one probability per class of the loaded
\* model, summing to one.  The loaded model may have one class fewer or one
\* more than PRODUCT_LABELS has labels.
ProductOutputs ==
    UNION { {q \in [1..n -> 0..ProductUnits] : SumOf(q) = ProductUnits} :
            n \in (Len(PRODUCT_LABELS) - 1)..(Len(PRODUCT_LABELS) + 1) }

\* clf_escalation.predict_proba(X)[0][1], in percent.
ProbValues ==
    {p \in 0..100 : /\ p % 5 = 0
                    /\ p >= suggested_prob_thresh - 5 * MaxBelow
                    /\ p <= suggested_prob_thresh + 5 * MaxAbove}

(* -------------------------------- state -------------------------------- *)

VARIABLES
    pc,                       \* the line the request is at
    caller,                   \* who called predict_escalation
    narrative,                \* the narrative of the request
    steps,                    \* the collaborators invoked for the request
    sentiment_metric,         \* the sentiment row (a one-row DataFrame)
    narrative_vectorized,     \* the tf-idf vector of the narrative
    product_type_prob,        \* predict_product_type's classifier output
    product_type,             \* predict_product_type's return value
    base_row,                 \* the row as handed to predict_escalation
    i,                        \* the position of the loop of line 85
    predict_probability_list,
    clf_calls,                \* the invocations of clf_escalation of this call
    failed,                   \* an invocation of clf_escalation raised
    fig_saved,                \* static/escalation_prob.png was written
    escalation_return,        \* what predict_escalation returned
    result,                   \* what predict returned
    error,                    \* the exception that reached the caller
    calls                     \* direct calls of predict_escalation made

vars == << pc, caller, narrative, steps, sentiment_metric, narrative_vectorized,
           product_type_prob, product_type, base_row, i,
           predict_probability_list, clf_calls, failed, fig_saved,
           escalation_return, result, error, calls >>

NoReturn == << >>
NoResult == << >>

response_types == get_response_types

Init ==
    /\ pc = "idle"
    /\ caller = "none"
    /\ narrative = "none"
    /\ steps = {}
    /\ sentiment_metric = NoFrame
    /\ narrative_vectorized = "none"
    /\ product_type_prob = << >>
    /\ product_type = "none"
    /\ base_row = NoFrame
    /\ i = 0
    /\ predict_probability_list = << >>
    /\ clf_calls = << >>
    /\ failed = FALSE
    /\ fig_saved = FALSE
    /\ escalation_return = NoReturn
    /\ result = NoResult
    /\ error = "none"
    /\ calls = 0

(* ------------------------------- predict ------------------------------- *)

\* predict(narrative) is called.  Line 28.
CallPredict ==
    /\ pc = "idle"
    /\ \E n \in Narratives : narrative' = n
    /\ caller' = "predict"
    /\ pc' = "L40"
    /\ UNCHANGED << steps, sentiment_metric, narrative_vectorized,
                    product_type_prob, product_type, base_row, i,
                    predict_probability_list, clf_calls, failed, fig_saved,
                    escalation_return, result, error, calls >>

\* An exception leaves predict: nothing is caught anywhere in Predictor.py.
Raise(exception) ==
    /\ pc' = "raised"
    /\ error' = exception

\* Line 40.  What the generator does with a narrative that is empty or no text
\* is not decided here: it returns a row or it raises.
GenerateSentimentMetric ==
    /\ pc = "L40"
    /\ steps' = steps \cup {"generate_sentiment_metric"}
    /\ \/ /\ sentiment_metric' = generate_sentiment_metric
          /\ pc' = "L41"
          /\ UNCHANGED error
       \/ /\ ~IsValidNarrative(narrative)
          /\ Raise("CollaboratorError")
          /\ UNCHANGED sentiment_metric
    /\ UNCHANGED << caller, narrative, narrative_vectorized, product_type_prob,
                    product_type, base_row, i, predict_probability_list,
                    clf_calls, failed, fig_saved, escalation_return, result,
                    calls >>

\* Lines 41-42.
ScaleSentimentMetric ==
    /\ pc = "L41"
    /\ steps' = steps \cup {"scaler"}
    /\ sentiment_metric' = ScaleColumns(sentiment_metric, {"word_num", "sentence_num"})
    /\ pc' = "L45"
    /\ UNCHANGED << caller, narrative, narrative_vectorized, product_type_prob,
                    product_type, base_row, i, predict_probability_list,
                    clf_calls, failed, fig_saved, escalation_return, result,
                    error, calls >>

\* Lines 45-48: the narrative is preprocessed and vectorized.
VectorizeNarrative ==
    /\ pc = "L45"
    /\ steps' = steps \cup {"pre_process_narrative", "tf_idf_vectorizer"}
    /\ \/ /\ narrative_vectorized' = "tfidf"
          /\ pc' = "L53"
          /\ UNCHANGED error
       \/ /\ ~IsValidNarrative(narrative)
          /\ Raise("CollaboratorError")
          /\ UNCHANGED narrative_vectorized
    /\ UNCHANGED << caller, narrative, sentiment_metric, product_type_prob,
                    product_type, base_row, i, predict_probability_list,
                    clf_calls, failed, fig_saved, escalation_return, result,
                    calls >>

\* Line 53 and lines 65-73.
PredictProductType ==
    /\ pc = "L53"
    /\ steps' = steps \cup {"clf_product"}
    /\ \E prob \in ProductOutputs :
          /\ product_type_prob' = prob
          /\ LET r == predict_product_type(prob)
             IN  IF r.raised
                 THEN Raise(r.value) /\ UNCHANGED product_type
                 ELSE product_type' = r.value /\ pc' = "L57" /\ UNCHANGED error
    /\ UNCHANGED << caller, narrative, sentiment_metric, narrative_vectorized,
                    base_row, i, predict_probability_list, clf_calls, failed,
                    fig_saved, escalation_return, result, calls >>

(* -------------------------- predict_escalation ------------------------- *)

\* Lines 77-82: predict_escalation is entered with the row the caller holds.
EnterEscalation ==
    /\ base_row' = sentiment_metric
    /\ predict_probability_list' = << >>
    /\ clf_calls' = << >>
    /\ failed' = FALSE
    /\ escalation_return' = NoReturn
    /\ i' = 1
    /\ pc' = "L85"

\* Line 57: predict calls predict_escalation.
CallEscalation ==
    /\ pc = "L57"
    /\ steps' = steps \cup {"clf_escalation"}
    /\ EnterEscalation
    /\ product_type_prob' = << >>
    /\ UNCHANGED << caller, narrative, sentiment_metric, narrative_vectorized,
                    product_type, fig_saved, result, error, calls >>

\* A caller that holds the vector and the row of an earlier call calls
\* predict_escalation with them again.
DirectCall ==
    /\ pc \in {"done", "raised"}
    /\ calls < MaxCalls
    /\ narrative_vectorized # "none"
    /\ base_row # NoFrame
    /\ calls' = calls + 1
    /\ caller' = "direct"
    /\ EnterEscalation
    /\ product_type_prob' = << >>
    /\ product_type' = "none"
    /\ result' = NoResult
    /\ error' = "none"
    /\ UNCHANGED << narrative, steps, sentiment_metric, narrative_vectorized,
                    fig_saved >>

\* Lines 85-90: the row is encoded for the i-th response type.
EncodeResponse ==
    /\ pc = "L85"
    /\ i <= Len(response_types)
    /\ sentiment_metric' = EncodeOneHot(sentiment_metric, response_types, response_types[i])
    /\ pc' = "L92"
    /\ UNCHANGED << caller, narrative, steps, narrative_vectorized,
                    product_type_prob, product_type, base_row, i,
                    predict_probability_list, clf_calls, failed, fig_saved,
                    escalation_return, result, error, calls >>

\* Lines 92-104: the classifier answers for the i-th response type.
ClassifierAnswers ==
    /\ pc = "L92"
    /\ \E p \in ProbValues :
          /\ clf_calls' = Append(clf_calls,
                 [response |-> response_types[i],
                  row      |-> sentiment_metric,
                  X        |-> HStack(narrative_vectorized, sentiment_metric),
                  proba    |-> p])
          /\ predict_probability_list' = AppendProbability(predict_probability_list, p)
    /\ i' = i + 1
    /\ pc' = "L85"
    /\ UNCHANGED << caller, narrative, steps, sentiment_metric,
                    narrative_vectorized, product_type_prob, product_type,
                    base_row, failed, fig_saved, escalation_return, result,
                    error, calls >>

\* Mutant of ClassifierRaises: the exception is caught inside the loop and the
\* loop goes on with the next response type.
ClassifierRaisesSwallowed ==
    /\ pc = "L92"
    /\ failed' = TRUE
    /\ i' = i + 1
    /\ pc' = "L85"
    /\ UNCHANGED << caller, narrative, steps, sentiment_metric,
                    narrative_vectorized, product_type_prob, product_type,
                    base_row, predict_probability_list, clf_calls,
                    fig_saved, escalation_return, result, error, calls >>

\* Lines 93 and 102: predict or predict_proba raises; the exception leaves
\* predict_escalation, and predict with it.
ClassifierRaises ==
    /\ pc = "L92"
    /\ failed' = TRUE
    /\ Raise("ClassifierError")
    /\ UNCHANGED << caller, narrative, steps, sentiment_metric,
                    narrative_vectorized, product_type_prob, product_type,
                    base_row, i, predict_probability_list, clf_calls,
                    fig_saved, escalation_return, result, calls >>

\* Lines 106-142: the chart is saved, the response is suggested, and
\* predict_escalation returns.
SuggestResponse ==
    /\ pc = "L85"
    /\ i > Len(response_types)
    /\ fig_saved' = TRUE
    /\ escalation_return' =
          [escalation_prob_fig      |-> "static/escalation_prob.png",
           suggested_response       |-> response_types[SuggestedIndex(predict_probability_list)],
           predict_probability_list |-> predict_probability_list]
    /\ pc' = IF caller = "predict" THEN "L60" ELSE "done"
    /\ UNCHANGED << caller, narrative, steps, sentiment_metric,
                    narrative_vectorized, product_type_prob, product_type,
                    base_row, i, predict_probability_list, clf_calls, failed,
                    result, error, calls >>

\* Lines 60-63: predict returns.
ReturnPrediction ==
    /\ pc = "L60"
    /\ result' =
          [product_type   |-> product_type,
           escalation_prob_fig |-> escalation_return.escalation_prob_fig,
           response       |-> DisplayResponse(escalation_return.suggested_response),
           escalation_probas_according_response |->
                              escalation_return.predict_probability_list]
    /\ pc' = "done"
    /\ UNCHANGED << caller, narrative, steps, sentiment_metric,
                    narrative_vectorized, product_type_prob, product_type,
                    base_row, i, predict_probability_list, clf_calls, failed,
                    fig_saved, escalation_return, error, calls >>

Next ==
    \/ CallPredict
    \/ GenerateSentimentMetric
    \/ ScaleSentimentMetric
    \/ VectorizeNarrative
    \/ PredictProductType
    \/ CallEscalation
    \/ DirectCall
    \/ EncodeResponse
    \/ ClassifierAnswers
    \/ ClassifierRaises
    \/ SuggestResponse
    \/ ReturnPrediction

Spec == Init /\ [][Next]_vars

(* ------------------------------ properties ----------------------------- *)

\* The least value of a list, the positions strictly between it and the
\* suggestion threshold, and the first position holding a value.
LeastOf(list) == CHOOSE m \in Range(list) : \A v \in Range(list) : m <= v

Qualifying(list) ==
    {k \in 1..Len(list) : list[k] > LeastOf(list) /\ list[k] < suggested_prob_thresh}

LargestQualifying(list) ==
    CHOOSE m \in {list[k] : k \in Qualifying(list)} :
        \A k \in Qualifying(list) : list[k] <= m

FirstHolding(list, value) ==
    CHOOSE k \in 1..Len(list) : list[k] = value /\ \A j \in 1..Len(list) : list[j] = value => k <= j

Returned == escalation_return # NoReturn

ReturnedList == escalation_return.predict_probability_list

C2_Fallback ==
    (Returned /\ Qualifying(ReturnedList) = {}) =>
        escalation_return.suggested_response =
            response_types[FirstHolding(ReturnedList, LeastOf(ReturnedList))]

\* C2 witness: all probabilities are equal and none is under 0.35 (the ceiling
\* is not above the least probability), and the first response type is suggested.
C2_Witness ==
    /\ Returned
    /\ \A k \in 1..Len(ReturnedList) : ReturnedList[k] = ReturnedList[1]
    /\ ReturnedList[1] >= suggested_prob_thresh
    /\ escalation_return.suggested_response = response_types[1]

\* The one-hot columns of a row: every column that is no sentiment column.
OneHotColumns(df) == Range(df.columns) \ Range(SENTIMENT_COLUMNS)

\* C3: at every invocation of the escalation classifier the row holds one
\* one-hot column per response type, the column of the response type being
\* scored is 1 and every other one-hot column is 0.
C3_OneHotIsolation ==
    \A n \in 1..Len(clf_calls) :
        LET call == clf_calls[n]
        IN  /\ call.response = response_types[n]
            /\ OneHotColumns(call.row) = Range(new_column_names(response_types))
            /\ \A c \in OneHotColumns(call.row) :
                   call.row.data[c] = IF c = column_name_base \o call.response THEN 1 ELSE 0
            /\ call.X = << narrative_vectorized >> \o
                    [k \in 1..Len(call.row.columns) |-> call.row.data[call.row.columns[k]]]

\* C3 witness: the row handed to predict_escalation already had the one-hot
\* column of the last response type set, and a response type other than the
\* last one has been scored on it.
C3_Witness ==
    /\ caller = "direct"
    /\ OneHotColumns(base_row) # {}
    /\ base_row.data[column_name_base \o response_types[Len(response_types)]] = 1
    /\ Len(clf_calls) >= 2

\* C4: the list predict_escalation returns has one entry per response type,
\* entry k is the probability the classifier gave for the k-th response
\* type, and every entry lies in [0, 1].
C4_Completeness ==
    Returned =>
        /\ Len(ReturnedList) = Len(response_types)
        /\ Len(clf_calls) = Len(response_types)
        /\ \A k \in 1..Len(response_types) :
              /\ clf_calls[k].response = response_types[k]
              /\ ReturnedList[k] = clf_calls[k].proba
              /\ ReturnedList[k] >= 0
              /\ ReturnedList[k] <= 100

\* C4 witness: a returned list whose first two entries differ, and whose last
\* two entries differ.
C4_Witness ==
    /\ Returned
    /\ ReturnedList[1] # ReturnedList[2]
    /\ ReturnedList[3] # ReturnedList[4]

\* C5: once an invocation of the escalation classifier has raised, the
\* exception has reached the caller, and neither predict_escalation nor
\* predict has returned anything.
C5_AllOrNothing ==
    failed =>
        /\ pc = "raised"
        /\ error = "ClassifierError"
        /\ escalation_return = NoReturn
        /\ result = NoResult

\* C5 witness: the classifier raised after some, and not all, response types
\* had been scored.
C5_Witness ==
    /\ failed
    /\ Len(predict_probability_list) >= 1
    /\ Len(predict_probability_list) < Len(response_types)

\* C6, as claimed: when predict_escalation has returned, the row the caller
\* handed in has the columns and the values it had at the call.
C6_RowUnchanged ==
    Returned => sentiment_metric = base_row

\* The first position holding the largest value of a list.
FirstLargest(list) ==
    CHOOSE k \in 1..Len(list) :
        /\ \A j \in 1..Len(list) : list[j] <= list[k]
        /\ \A j \in 1..(k - 1) : list[j] < list[k]

ProductAnswered == pc = "L57" \/ (pc = "raised" /\ error = "IndexError")

\* C7: predict_product_type returns the label at the first position of the
\* largest probability, when PRODUCT_LABELS has that position; it raises
\* otherwise.
C7_ProductArgMax ==
    ProductAnswered =>
        IF FirstLargest(product_type_prob) \in 1..Len(PRODUCT_LABELS)
        THEN pc = "L57" /\ product_type = PRODUCT_LABELS[FirstLargest(product_type_prob)]
        ELSE pc = "raised"

\* C7 witness: an output with one probability per label whose largest value
\* is held at the last position and at an earlier one; the label of the earlier
\* position is returned.
C7_Witness ==
    /\ pc = "L57"
    /\ Len(product_type_prob) = Len(PRODUCT_LABELS)
    /\ product_type_prob[3] = product_type_prob[2]
    /\ product_type_prob[1] < product_type_prob[2]
    /\ product_type = PRODUCT_LABELS[2]

\* C8, as claimed: a product label is returned only from an output that has
\* one probability per label of PRODUCT_LABELS.
C8_LabelGuard ==
    pc = "L57" => Len(product_type_prob) = Len(PRODUCT_LABELS)

\* C9, as claimed: for a narrative that is empty or no text, no collaborator
\* is invoked and nothing is returned.
C9_InputRejected ==
    narrative \in {"empty", "nontext"} =>
        /\ steps = {}
        /\ product_type = "none"
        /\ escalation_return = NoReturn
        /\ result = NoResult

\* The response types as predict shows them.
ShownAs ==
    << << "E", "x", "p", "l", "a", "n", "a", "t", "i", "o", "n" >>,
       << "M", "o", "n", "e", "t", "a", "r", "y", " ", "r", "e", "l", "i", "e", "f" >>,
       << "N", "o", "n", "-", "m", "o", "n", "e", "t", "a", "r", "y", " ",
          "r", "e", "l", "i", "e", "f" >>,
       << "U", "n", "t", "i", "m", "e", "l", "y", " ",
          "r", "e", "s", "p", "o", "n", "s", "e" >> >>

PredictReturned == result # NoResult

====
